---- MODULE Spec2Model ----
(***************************************************************************)
(* Vessel import validation (scripts/validation/validate_vessel_import.py) *)
(* as a state machine: the validator's pure field checks, the batch pass   *)
(* of validate_dataframe and the main() flow around it.                    *)
(*                                                                         *)
(* Text values are sequences of one-character strings, so that stripping,  *)
(* upper-casing and digit filtering are computed and not assumed.          *)
(***************************************************************************)
EXTENDS Integers, Sequences, FiniteSets, TLC

VARIABLES
    pc,               \* position of main(): "start", "columns", "dups", "rows", ...
    csv,              \* the input file: [header, rows] of raw cell text
    df,               \* the dataframe: [columns, rows]
    idx,              \* position of the iterrows() loop of validate_dataframe
    country_iso,      \* reference table: set of [id, alpha_3_code, alpha_2_code]
    gear_types_fao,   \* reference table: sequence of [id, fao_isscfg_code]
    vessel_types,     \* reference table: set of [id, code, alpha]
    sim,              \* the data store's similarity(): score per gear row and raw value
    self_warnings,    \* VesselImportValidator.warnings
    valid_records,    \* VesselImportValidator.valid_records
    invalid_records,  \* VesselImportValidator.invalid_records
    row_checks,       \* per classified row: the local errors/warnings lists and calls made
    report,           \* the report written by generate_report, or NoReport
    staging,          \* rows committed to vessel_staging_validated
    txn,              \* rows copied by the connection's open transaction, not committed
    calls,            \* outcomes of the earlier validate_dataframe calls on the validator
    conn,             \* VesselImportValidator.conn: "open" or "closed"
    cur,              \* the cursor of save_to_staging: "none", "open" or "closed"
    processed,        \* staging rows with processed_at set: [row, run], run the marking run
    trade_transactions, \* rows of trade_transactions: [vessel_name, row, run]
    store,            \* per store_in_postgres run: "ready", "inserted" or "done"
    fn,               \* single call: the validator method called
    arg,              \* single call: its argument
    ret               \* single call: its return value, None before the call

vars == <<pc, csv, df, idx, country_iso, gear_types_fao, vessel_types, sim,
          self_warnings, valid_records, invalid_records, row_checks, report,
          staging, txn, calls, conn, cur, processed, trade_transactions, store,
          fn, arg, ret>>

(***************************************************************************)
(* Bounds of the model.                                                    *)
(***************************************************************************)
MaxRecords == 3      \* longest batch built from RecordPool
ImoMaxLen == 8       \* longest generated argument of validate_imo
MaxCalls == 2        \* validate_dataframe calls on one validator
GateLen == 10        \* length of the batches around the threshold of the gate
MaxStoreRuns == 2    \* runs of the store_in_postgres task
MaxStaged == 3       \* rows of the staging table when store_in_postgres runs

StoreRuns == 1 .. MaxStoreRuns

\* program constants
SampleSize == 10         \* head(10) of the report samples
ThresholdPercent == 90   \* the staging threshold 0.90

(***************************************************************************)
(* Text.                                                                   *)
(***************************************************************************)
NaN == <<"NaN">>          \* pandas' missing value (not a text)
NoneV == <<"None">>       \* Python's None

Digits == <<"0", "1", "2", "3", "4", "5", "6", "7", "8", "9">>
UpperLetters == <<"A", "B", "C", "D", "E", "F", "G", "H", "I", "J", "K", "L", "M",
                  "N", "O", "P", "Q", "R", "S", "T", "U", "V", "W", "X", "Y", "Z">>
LowerLetters == <<"a", "b", "c", "d", "e", "f", "g", "h", "i", "j", "k", "l", "m",
                  "n", "o", "p", "q", "r", "s", "t", "u", "v", "w", "x", "y", "z">>

Range(s) == {s[i] : i \in DOMAIN s}
IndexOf(s, c) == CHOOSE i \in DOMAIN s : s[i] = c

IsDigit(c) == c \in Range(Digits)
IsSpace(c) == c = " "
DigitVal(c) == IndexOf(Digits, c) - 1

\* int(d) for a digit character
int(c) == DigitVal(c)

\* str.upper(), character by character
UpperChar(c) == IF c \in Range(LowerLetters) THEN UpperLetters[IndexOf(LowerLetters, c)] ELSE c
upper(s) == [i \in DOMAIN s |-> UpperChar(s[i])]

\* str.strip(): leading and trailing whitespace removed
RECURSIVE lstrip(_)
lstrip(s) == IF s # <<>> /\ IsSpace(Head(s)) THEN lstrip(Tail(s)) ELSE s
RECURSIVE rstrip(_)
rstrip(s) == IF s # <<>> /\ IsSpace(s[Len(s)]) THEN rstrip(SubSeq(s, 1, Len(s) - 1)) ELSE s
strip(s) == rstrip(lstrip(s))

\* re.sub(r'[^0-9]', '', s)
re_sub_non_digits(s) == SelectSeq(s, IsDigit)

\* pd.isna / pd.notna
isna(v) == v = NaN \/ v = NoneV
notna(v) == ~isna(v)

\* code point order of the characters used (space < '-' < '.' < digits < A-Z < a-z)
Ord(c) ==
    IF c = " " THEN 32
    ELSE IF c = "-" THEN 45
    ELSE IF c = "." THEN 46
    ELSE IF c \in Range(Digits) THEN 47 + IndexOf(Digits, c)
    ELSE IF c \in Range(UpperLetters) THEN 64 + IndexOf(UpperLetters, c)
    ELSE 96 + IndexOf(LowerLetters, c)

\* Python's str < str
RECURSIVE StrLess(_, _)
StrLess(a, b) ==
    IF b = <<>> THEN FALSE
    ELSE IF a = <<>> THEN TRUE
    ELSE IF Head(a) = Head(b) THEN StrLess(Tail(a), Tail(b))
    ELSE Ord(Head(a)) < Ord(Head(b))

(***************************************************************************)
(* validate_imo (lines 34-57).  The tuple (bool, Optional[str]) is the     *)
(* record [is_valid, result]; a message is a record of its parts.          *)
(***************************************************************************)
\* WeightedSum with the weights 6..1 in place of 7..2
RECURSIVE WeightedSum_WeightsShifted(_, _)
WeightedSum_WeightsShifted(digits, i) ==
    IF i >= Len(digits) THEN 0
    ELSE digits[i + 1] * (6 - i) + WeightedSum_WeightsShifted(digits, i + 1)

\* sum(d * (7 - i) for i, d in enumerate(digits)), i counted from 0
RECURSIVE WeightedSum(_, _)
WeightedSum(digits, i) ==
    IF i >= Len(digits) THEN 0
    ELSE digits[i + 1] * (7 - i) + WeightedSum(digits, i + 1)

Checksum(imo_clean) ==
    LET digits == [i \in 1..6 |-> int(imo_clean[i])]
    IN  WeightedSum(digits, 0) % 10

\* validate_imo without the test imo == '' of line 36
validate_imo_NoEmptyTest(imo) ==
    IF isna(imo)
    THEN [is_valid |-> TRUE, result |-> NoneV]
    ELSE LET imo_clean == re_sub_non_digits(imo)
         IN  IF Len(imo_clean) # 7
             THEN [is_valid |-> FALSE,
                   result |-> [msg |-> "Invalid length", len |-> Len(imo_clean)]]
             ELSE LET check_digit == int(imo_clean[7])
                      calculated == Checksum(imo_clean)
                  IN  IF calculated # check_digit
                      THEN [is_valid |-> FALSE,
                            result |-> [msg |-> "Invalid check digit",
                                        expected |-> calculated, got |-> check_digit]]
                      ELSE [is_valid |-> TRUE, result |-> imo_clean]

validate_imo(imo) ==
    IF isna(imo) \/ imo = <<>>
    THEN [is_valid |-> TRUE, result |-> NoneV]
    ELSE LET imo_clean == re_sub_non_digits(imo)
         IN  IF Len(imo_clean) # 7
             THEN [is_valid |-> FALSE,
                   result |-> [msg |-> "Invalid length", len |-> Len(imo_clean)]]
             ELSE LET check_digit == int(imo_clean[7])
                      calculated == Checksum(imo_clean)
                  IN  IF calculated # check_digit
                      THEN [is_valid |-> FALSE,
                            result |-> [msg |-> "Invalid check digit",
                                        expected |-> calculated, got |-> check_digit]]
                      ELSE [is_valid |-> TRUE, result |-> imo_clean]

(***************************************************************************)
(* Reference resolution (lines 59-163).  A result tuple is the record      *)
(* [is_valid, uuid, code]; steps lists the lookups the call executed, in   *)
(* order.                                                                  *)
(***************************************************************************)
fetchone(rows) == CHOOSE r \in rows : TRUE

\* the alias table with 'UK' mapped to 'ENG', itself a key
mappings_Chained ==
    { <<<<"U", "K">>, <<"E", "N", "G">>>>,
      <<<<"E", "N", "G">>, <<"G", "B", "R">>>>,
      <<<<"S", "C", "O">>, <<"G", "B", "R">>>>,
      <<<<"G", "E", "R">>, <<"D", "E", "U">>>>,
      <<<<"N", "E", "D">>, <<"N", "L", "D">>>>,
      <<<<"P", "O", "R">>, <<"P", "R", "T">>>> }

\* the static alias table of validate_flag_code (lines 86-93)
mappings ==
    { <<<<"U", "K">>, <<"G", "B", "R">>>>,
      <<<<"E", "N", "G">>, <<"G", "B", "R">>>>,
      <<<<"S", "C", "O">>, <<"G", "B", "R">>>>,
      <<<<"G", "E", "R">>, <<"D", "E", "U">>>>,
      <<<<"N", "E", "D">>, <<"N", "L", "D">>>>,
      <<<<"P", "O", "R">>, <<"P", "R", "T">>>> }

MappingKeys == {m[1] : m \in mappings}
MappingOf(k) == (CHOOSE m \in mappings : m[1] = k)[2]

RECURSIVE validate_flag_code(_)
validate_flag_code(flag_code) ==
    IF isna(flag_code) \/ flag_code = <<>>
    THEN [is_valid |-> TRUE, uuid |-> NoneV, code |-> NoneV, steps |-> <<>>]
    ELSE LET key == upper(flag_code)
             by3 == {r \in country_iso : r.alpha_3_code = key}
             by2 == {r \in country_iso : r.alpha_2_code = key}
             q3 == [step |-> "alpha_3_code", arg |-> key, hit |-> by3 # {}]
             q2 == [step |-> "alpha_2_code", arg |-> key, hit |-> by2 # {}]
             qm == [step |-> "mappings", arg |-> key, hit |-> key \in MappingKeys]
         IN  IF by3 # {}
             THEN [is_valid |-> TRUE, uuid |-> fetchone(by3).id,
                   code |-> fetchone(by3).alpha_3_code, steps |-> <<q3>>]
             ELSE IF by2 # {}
             THEN [is_valid |-> TRUE, uuid |-> fetchone(by2).id,
                   code |-> fetchone(by2).alpha_3_code, steps |-> <<q3, q2>>]
             ELSE IF key \in MappingKeys
             THEN LET inner == validate_flag_code(MappingOf(key))
                  IN  [inner EXCEPT !.steps = <<q3, q2, qm>> \o inner.steps]
             ELSE [is_valid |-> FALSE, uuid |-> NoneV, code |-> flag_code,
                   steps |-> <<q3, q2, qm>>]

\* similarity(fao_isscfg_code, raw) of the data store, in hundredths
similarity(i, gear_code) == sim[gear_code][i]

\* rows of the fuzzy query: WHERE similarity(...) > 0.6
FuzzyThreshold == 60
FuzzyRows(gear_code) ==
    {i \in DOMAIN gear_types_fao : similarity(i, gear_code) > FuzzyThreshold}

\* ORDER BY sim DESC LIMIT 1: the order among rows of equal score is not
\* specified by the query, so each top-scoring row is a possible answer;
\* 0 stands for "no row".
FuzzyAnswers(gear_code) ==
    IF FuzzyRows(gear_code) = {} THEN {0}
    ELSE {i \in FuzzyRows(gear_code) :
            \A j \in FuzzyRows(gear_code) : similarity(j, gear_code) <= similarity(i, gear_code)}

\* an exact query that finds no row
GearExact_NoRow(gear_code) == {i \in DOMAIN gear_types_fao : FALSE}

\* lines 107-114
GearExact(gear_code) == {i \in DOMAIN gear_types_fao : gear_types_fao[i].fao_isscfg_code = gear_code}

\* the answers the cursor can give to the queries of one validate_gear_type call
GearFetches(gear_code) ==
    IF isna(gear_code) \/ gear_code = <<>> \/ GearExact(gear_code) # {}
    THEN {0}
    ELSE FuzzyAnswers(gear_code)

\* fetched: the row the fuzzy query returned (0: none)
validate_gear_type(gear_code, fetched) ==
    IF isna(gear_code) \/ gear_code = <<>>
    THEN [is_valid |-> TRUE, uuid |-> NoneV, code |-> NoneV, steps |-> <<>>, warn |-> <<>>]
    ELSE LET exact == GearExact(gear_code)
             qe == [step |-> "exact", arg |-> gear_code, hit |-> exact # {}]
             qf == [step |-> "similarity", arg |-> gear_code, hit |-> fetched # 0]
         IN  IF exact # {}
             THEN [is_valid |-> TRUE, uuid |-> gear_types_fao[fetchone(exact)].id,
                   code |-> gear_types_fao[fetchone(exact)].fao_isscfg_code,
                   steps |-> <<qe>>, warn |-> <<>>]
             ELSE IF fetched # 0
             THEN [is_valid |-> TRUE, uuid |-> gear_types_fao[fetched].id,
                   code |-> gear_types_fao[fetched].fao_isscfg_code,
                   steps |-> <<qe, qf>>,
                   warn |-> <<[type |-> "GEAR_FUZZY_MATCH", original |-> gear_code,
                               matched |-> gear_types_fao[fetched].fao_isscfg_code,
                               similarity |-> similarity(fetched, gear_code)]>>]
             ELSE [is_valid |-> FALSE, uuid |-> NoneV, code |-> gear_code,
                   steps |-> <<qe, qf>>, warn |-> <<>>]

validate_vessel_type(vessel_type_code) ==
    IF isna(vessel_type_code) \/ vessel_type_code = <<>>
    THEN [is_valid |-> TRUE, uuid |-> NoneV, code |-> NoneV, steps |-> <<>>]
    ELSE LET byCode == {r \in vessel_types : r.code = vessel_type_code}
             byAlpha == {r \in vessel_types : r.alpha = vessel_type_code}
             qc == [step |-> "isscfv_code", arg |-> vessel_type_code, hit |-> byCode # {}]
             qa == [step |-> "isscfv_alpha", arg |-> vessel_type_code, hit |-> byAlpha # {}]
         IN  IF byCode # {}
             THEN [is_valid |-> TRUE, uuid |-> fetchone(byCode).id,
                   code |-> fetchone(byCode).code, steps |-> <<qc>>]
             ELSE IF byAlpha # {}
             THEN [is_valid |-> TRUE, uuid |-> fetchone(byAlpha).id,
                   code |-> fetchone(byAlpha).code, steps |-> <<qc, qa>>]
             ELSE [is_valid |-> FALSE, uuid |-> NoneV, code |-> vessel_type_code,
                   steps |-> <<qc, qa>>]

(***************************************************************************)
(* The dataframe.  A row is a record of its cells; a column the file does  *)
(* not have reads as None (row.get) and is guarded by HasCol as the code   *)
(* guards it with "in row".                                                *)
(***************************************************************************)
DataCols == {"vessel_name", "imo", "flag_code", "gear_type", "vessel_type"}

\* values pd.read_csv(dtype=str) reads as missing (two of pandas' defaults)
NaValues == {<<>>, <<"N", "A">>}

read_cell(header, col, text) ==
    IF col \notin header THEN NoneV
    ELSE IF text \in NaValues THEN NaN
    ELSE text

\* pd.read_csv(input_file, dtype=str) (line 375)
read_csv(file) ==
    [columns |-> file.header,
     rows |-> [i \in DOMAIN file.rows |->
        [vessel_name |-> read_cell(file.header, "vessel_name", file.rows[i].vessel_name),
         imo |-> read_cell(file.header, "imo", file.rows[i].imo),
         flag_code |-> read_cell(file.header, "flag_code", file.rows[i].flag_code),
         gear_type |-> read_cell(file.header, "gear_type", file.rows[i].gear_type),
         vessel_type |-> read_cell(file.header, "vessel_type", file.rows[i].vessel_type),
         validation_status |-> "unset",
         validation_errors |-> NoneV,
         validation_warnings |-> NoneV,
         imo_validated |-> NoneV,
         flag_uuid |-> NoneV,
         gear_type_uuid |-> NoneV,
         vessel_type_uuid |-> NoneV]]]

HasCol(d, col) == col \in d.columns

\* json.dumps of a list: a text that holds the list
json_dumps(list) == <<"json", list>>

(***************************************************************************)
(* check_duplicates (lines 165-190).                                       *)
(***************************************************************************)
\* the keys of a groupby, in its (sorted) order
\* a key is a tuple of texts, compared component by component
RECURSIVE KeyLess(_, _)
KeyLess(a, b) ==
    IF a = <<>> \/ b = <<>> THEN FALSE
    ELSE IF Head(a) = Head(b) THEN KeyLess(Tail(a), Tail(b))
    ELSE StrLess(Head(a), Head(b))

RECURSIVE SortedKeys(_)
SortedKeys(S) ==
    IF S = {} THEN <<>>
    ELSE LET m == CHOOSE x \in S : \A y \in S : ~KeyLess(y, x)
         IN  <<m>> \o SortedKeys(S \ {m})

\* df[df['imo'].notna()].groupby('imo').size(), size > 1
ImoGroupSize(d, imo) == Cardinality({i \in DOMAIN d.rows : d.rows[i].imo = imo})
\* the groups without the filter imo_dups > 1 of line 169
ImoDupKeys_NoSizeTest(d) ==
    {d.rows[i].imo : i \in {j \in DOMAIN d.rows : notna(d.rows[j].imo)}}

ImoDupKeys(d) ==
    {d.rows[i].imo : i \in {j \in DOMAIN d.rows :
        notna(d.rows[j].imo) /\ ImoGroupSize(d, d.rows[j].imo) > 1}}

ImoDupWarnings(d) ==
    LET keys == SortedKeys({<<imo>> : imo \in ImoDupKeys(d)})
    IN  [k \in DOMAIN keys |->
            [type |-> "DUPLICATE_IMO", imo |-> keys[k][1],
             count |-> ImoGroupSize(d, keys[k][1])]]

\* df.groupby(['vessel_name', 'flag_code']).size(), size > 1; groupby drops
\* the rows whose key has a missing component
NameFlagKey(r) == <<r.vessel_name, r.flag_code>>
NameFlagGrouped(d) ==
    {i \in DOMAIN d.rows : notna(d.rows[i].vessel_name) /\ notna(d.rows[i].flag_code)}
NameFlagGroupSize(d, key) ==
    Cardinality({i \in NameFlagGrouped(d) : NameFlagKey(d.rows[i]) = key})
NameFlagDupKeys(d) ==
    {NameFlagKey(d.rows[i]) : i \in {j \in NameFlagGrouped(d) :
        NameFlagGroupSize(d, NameFlagKey(d.rows[j])) > 1}}

NameFlagDupWarnings(d) ==
    LET keys == SortedKeys(NameFlagDupKeys(d))
    IN  [k \in DOMAIN keys |->
            [type |-> "DUPLICATE_NAME_FLAG", vessel_name |-> keys[k][1],
             flag |-> keys[k][2], count |-> NameFlagGroupSize(d, keys[k])]]

(***************************************************************************)
(* One iteration of the loop of validate_dataframe (lines 209-274).        *)
(***************************************************************************)
\* the name test without strip(): only the empty text counts as missing
NameMissing_NoStrip(row) == isna(row.vessel_name) \/ row.vessel_name = <<>>

NameMissing(row) == isna(row.vessel_name) \/ strip(row.vessel_name) = <<>>

\* the local lists and the calls of one iteration; fetched is the answer of
\* the data store to the fuzzy gear query
RowCheck(d, row, fetched) ==
    LET imo_called == HasCol(d, "imo") /\ notna(row.imo)
        imo_res == validate_imo(row.imo)
        flag_res == validate_flag_code(row.flag_code)
        gear_res == validate_gear_type(row.gear_type, fetched)
        vtype_res == validate_vessel_type(row.vessel_type)
        name_errors ==
            IF NameMissing(row)
            THEN <<[field |-> "vessel_name", error |-> "Missing vessel name"]>>
            ELSE <<>>
        imo_warnings ==
            IF imo_called /\ ~imo_res.is_valid
            THEN <<[field |-> "imo", error |-> imo_res.result]>>
            ELSE <<>>
        flag_errors ==
            IF HasCol(d, "flag_code") /\ ~flag_res.is_valid /\ notna(row.flag_code)
            THEN <<[field |-> "flag_code",
                    error |-> [msg |-> "Unknown flag code", code |-> flag_res.code]]>>
            ELSE <<>>
        gear_warnings ==
            IF HasCol(d, "gear_type") /\ ~gear_res.is_valid /\ notna(row.gear_type)
            THEN <<[field |-> "gear_type",
                    warning |-> [msg |-> "Unknown gear type", code |-> gear_res.code]]>>
            ELSE <<>>
        vtype_warnings ==
            IF HasCol(d, "vessel_type") /\ ~vtype_res.is_valid /\ notna(row.vessel_type)
            THEN <<[field |-> "vessel_type",
                    warning |-> [msg |-> "Unknown vessel type", code |-> vtype_res.code]]>>
            ELSE <<>>
    IN  [errors |-> name_errors \o flag_errors,
         warnings |-> imo_warnings \o gear_warnings \o vtype_warnings,
         imo_validated |->
            IF imo_called /\ imo_res.is_valid THEN imo_res.result ELSE NoneV,
         flag_uuid |->
            IF HasCol(d, "flag_code") /\ flag_res.is_valid THEN flag_res.uuid ELSE NoneV,
         gear_type_uuid |->
            IF HasCol(d, "gear_type") /\ gear_res.is_valid THEN gear_res.uuid ELSE NoneV,
         vessel_type_uuid |->
            IF HasCol(d, "vessel_type") /\ vtype_res.is_valid THEN vtype_res.uuid ELSE NoneV,
         flag_steps |-> IF HasCol(d, "flag_code") THEN flag_res.steps ELSE <<>>,
         gear_steps |-> IF HasCol(d, "gear_type") THEN gear_res.steps ELSE <<>>,
         fuzzy |-> IF HasCol(d, "gear_type") THEN gear_res.warn ELSE <<>>]

\* the status with the two tests of lines 265 and 269 in the other order
StatusOf_WarningsFirst(errors, warnings) ==
    IF warnings # <<>> THEN "WARNING"
    ELSE IF errors # <<>> THEN "ERROR"
    ELSE "VALID"

\* lines 264-274: the status and the stored lists
StatusOf(errors, warnings) ==
    IF errors # <<>> THEN "ERROR"
    ELSE IF warnings # <<>> THEN "WARNING"
    ELSE "VALID"

Classified(row, chk) ==
    [row EXCEPT
        !.validation_status = StatusOf(chk.errors, chk.warnings),
        !.validation_errors =
            IF chk.errors # <<>> THEN json_dumps(chk.errors) ELSE @,
        !.validation_warnings =
            IF chk.errors = <<>> /\ chk.warnings # <<>> THEN json_dumps(chk.warnings) ELSE @,
        !.imo_validated = chk.imo_validated,
        !.flag_uuid = chk.flag_uuid,
        !.gear_type_uuid = chk.gear_type_uuid,
        !.vessel_type_uuid = chk.vessel_type_uuid]

\* the selection with .isin(['VALID']) only
StagingSelected_ValidOnly(d) ==
    SelectSeq(d.rows, LAMBDA r : r.validation_status = "VALID")

\* the selection that also leaves out the records of a duplicated IMO
StagingSelected_NoDuplicates(d) ==
    SelectSeq(d.rows, LAMBDA r : r.validation_status \in {"VALID", "WARNING"}
                                   /\ r.imo \notin ImoDupKeys(d))

\* save_to_staging's selection (line 319)
StagingSelected(d) ==
    SelectSeq(d.rows, LAMBDA r : r.validation_status \in {"VALID", "WARNING"})

(***************************************************************************)
(* Inputs: reference tables of the data store and input files.             *)
(***************************************************************************)
GBR == <<"G", "B", "R">>
DEU == <<"D", "E", "U">>
OTB == <<"O", "T", "B">>
OTM == <<"O", "T", "M">>
KnownImo == <<"9", "0", "7", "4", "7", "2", "9">>

RowGBR == [id |-> <<"c", "1">>, alpha_3_code |-> GBR, alpha_2_code |-> <<"G", "B">>]
RowDEU == [id |-> <<"c", "2">>, alpha_3_code |-> DEU, alpha_2_code |-> <<"D", "E">>]
\* a row whose short code collides with a key of the alias table
RowUKR == [id |-> <<"c", "3">>, alpha_3_code |-> <<"U", "K", "R">>,
           alpha_2_code |-> <<"U", "K">>]

CountryTables == {{RowGBR, RowDEU}, {RowDEU}, {RowGBR, RowDEU, RowUKR}}

GearTable == <<[id |-> <<"g", "1">>, fao_isscfg_code |-> OTB],
               [id |-> <<"g", "2">>, fao_isscfg_code |-> OTM]>>

VesselTypeTable == {[id |-> <<"v", "1">>, code |-> <<"0", "1">>, alpha |-> <<"T", "O">>]}

\* gear values of the inputs that are no code of GearTable, and the scores
\* the data store may give them
FuzzyGearValues == {<<"o", "t", "b">>}
Scores == {50, 60, 61}
\* the score of a code of GearTable: 1 with itself, 2 of 6 trigrams shared
\* by OTB and OTM
ExactScores == (OTB :> <<100, 33>>)
SimTables == {s @@ ExactScores : s \in [FuzzyGearValues -> [DOMAIN GearTable -> Scores]]}

NameCells == {<<>>, <<" ">>, <<"A">>}
ImoCells == {<<>>, <<" ">>, KnownImo, <<"9", "0", "7", "4", "7", "2", "0">>,
             <<"I", "M", "O", " ">> \o KnownImo}
FlagCells == {<<>>, <<" ">>, GBR, <<"g", "b", "r">>, <<"G", "B">>, <<"U", "K">>,
              <<"X", "X">>, <<"N", "A">>}
GearCells == {<<>>, OTB, <<"o", "t", "b">>}
VesselTypeCells == {<<>>, <<"T", "O">>, <<"Z", "Z">>}

CsvRow(n, i, f, g, v) ==
    [vessel_name |-> n, imo |-> i, flag_code |-> f, gear_type |-> g, vessel_type |-> v]

AllRecords ==
    {CsvRow(n, i, f, g, v) : n \in NameCells, i \in ImoCells, f \in FlagCells,
                             g \in GearCells, v \in VesselTypeCells}

\* records from which the longer batches are built
RecordPool ==
    { CsvRow(<<"A">>, KnownImo, GBR, OTB, <<"T", "O">>),
      CsvRow(<<"A">>, KnownImo, GBR, <<>>, <<>>),
      CsvRow(<<"a">>, <<"I", "M", "O", " ">> \o KnownImo, GBR, <<"o", "t", "b">>, <<>>),
      CsvRow(<<"A">>, <<>>, <<>>, <<>>, <<"Z", "Z">>),
      CsvRow(<<>>, <<"1", "2", "3", "4", "5", "6", "7">>, <<"g", "b", "r">>, <<>>, <<>>),
      CsvRow(<<" ">>, <<" ">>, <<"X", "X">>, <<>>, <<>>) }

RECURSIVE SeqsUpTo(_, _)
SeqsUpTo(S, n) ==
    IF n = 0 THEN {<<>>}
    ELSE LET shorter == SeqsUpTo(S, n - 1)
         IN  shorter \cup {Append(b, r) : b \in {x \in shorter : Len(x) = n - 1}, r \in S}

\* batches around the threshold of the gate: GateLen records of which the
\* last 0, 1 or 2 are ERROR records, the first is a WARNING record
GateBatches ==
    {[i \in 1 .. GateLen |->
        IF i > k THEN CsvRow(<<" ">>, <<" ">>, <<"X", "X">>, <<>>, <<>>)
        ELSE IF i = 1 THEN CsvRow(<<"A">>, <<>>, <<>>, <<>>, <<"Z", "Z">>)
        ELSE CsvRow(<<"A">>, KnownImo, GBR, OTB, <<"T", "O">>)] :
     k \in GateLen - 2 .. GateLen}

Batches == {<<r>> : r \in AllRecords} \cup SeqsUpTo(RecordPool, MaxRecords) \cup GateBatches

Headers == {DataCols, DataCols \ {"gear_type", "vessel_type"}, DataCols \ {"imo"},
            DataCols \ {"flag_code"}}

CsvFiles == {[header |-> h, rows |-> b] : h \in Headers, b \in Batches}

NoReport == [written |-> FALSE]
NoFile == [header |-> DataCols, rows |-> <<>>]

(***************************************************************************)
(* main() (lines 345-387) and validate_dataframe (lines 192-276).          *)
(***************************************************************************)
Init ==
    /\ pc = "start"
    /\ csv \in CsvFiles
    /\ df = [columns |-> {}, rows |-> <<>>]
    /\ idx = 0
    /\ country_iso \in CountryTables
    /\ gear_types_fao = GearTable
    /\ vessel_types = VesselTypeTable
    /\ sim \in SimTables
    /\ self_warnings = <<>>
    /\ valid_records = 0
    /\ invalid_records = 0
    /\ row_checks = <<>>
    /\ report = NoReport
    /\ staging = <<>>
    /\ txn = <<>>
    /\ calls = <<>>
    /\ conn = "open"
    /\ cur = "none"
    /\ processed = {}
    /\ trade_transactions = <<>>
    /\ store = [r \in StoreRuns |-> "ready"]
    /\ fn = "none"
    /\ arg = NoneV
    /\ ret = NoneV

\* line 375
ReadCsv ==
    /\ pc = "start"
    /\ df' = read_csv(csv)
    /\ pc' = "columns"
    /\ UNCHANGED <<csv, idx, country_iso, gear_types_fao, vessel_types, sim, self_warnings,
                   valid_records, invalid_records, row_checks, report,
                   staging, txn, calls, conn, cur, processed, trade_transactions,
                   store, fn, arg, ret>>

\* lines 197-203
AddValidationColumns ==
    /\ pc = "columns"
    /\ df' = [df EXCEPT !.rows = [i \in DOMAIN df.rows |->
                [df.rows[i] EXCEPT !.validation_status = "VALID",
                                   !.validation_errors = NoneV,
                                   !.validation_warnings = NoneV,
                                   !.imo_validated = NoneV,
                                   !.flag_uuid = NoneV,
                                   !.gear_type_uuid = NoneV,
                                   !.vessel_type_uuid = NoneV]]]
    /\ pc' = "dups"
    /\ UNCHANGED <<csv, idx, country_iso, gear_types_fao, vessel_types, sim, self_warnings,
                   valid_records, invalid_records, row_checks, report,
                   staging, txn, calls, conn, cur, processed, trade_transactions,
                   store, fn, arg, ret>>

\* line 206; df['imo'] and the groupby raise KeyError on a column the file lacks
CheckDuplicates ==
    /\ pc = "dups"
    /\ IF ~HasCol(df, "imo")
       THEN /\ pc' = "raised"
            /\ UNCHANGED <<self_warnings, idx>>
       ELSE IF ~HasCol(df, "vessel_name") \/ ~HasCol(df, "flag_code")
       THEN /\ pc' = "raised"
            /\ self_warnings' = self_warnings \o ImoDupWarnings(df)
            /\ UNCHANGED idx
       ELSE /\ pc' = "rows"
            /\ self_warnings' = self_warnings \o ImoDupWarnings(df) \o NameFlagDupWarnings(df)
            /\ idx' = 1
    /\ UNCHANGED <<csv, df, country_iso, gear_types_fao, vessel_types, sim,
                   valid_records, invalid_records, row_checks, report,
                   staging, txn, calls, conn, cur, processed, trade_transactions,
                   store, fn, arg, ret>>

\* one iteration of the loop at line 209
ValidateRow ==
    /\ pc = "rows"
    /\ idx <= Len(df.rows)
    /\ \E fetched \in GearFetches(IF HasCol(df, "gear_type") THEN df.rows[idx].gear_type
                                                            ELSE NoneV) :
        LET chk == RowCheck(df, df.rows[idx], fetched)
        IN  /\ df' = [df EXCEPT !.rows[idx] = Classified(@, chk)]
            /\ self_warnings' = self_warnings \o chk.fuzzy
            /\ valid_records' = IF chk.errors # <<>> THEN valid_records ELSE valid_records + 1
            /\ invalid_records' = IF chk.errors # <<>> THEN invalid_records + 1
                                                        ELSE invalid_records
            /\ row_checks' = Append(row_checks, chk)
    /\ idx' = idx + 1
    /\ UNCHANGED <<pc, csv, country_iso, gear_types_fao, vessel_types, sim, report,
                   staging, txn, calls, conn, cur, processed, trade_transactions,
                   store, fn, arg, ret>>

\* a return of validate_dataframe straight to the threshold decision
ValidateReturn_SkipReport ==
    /\ pc = "rows"
    /\ idx > Len(df.rows)
    /\ pc' = "gate"
    /\ UNCHANGED <<csv, df, idx, country_iso, gear_types_fao, vessel_types, sim,
                   self_warnings, valid_records, invalid_records, row_checks, report,
                   staging, txn, calls, conn, cur, processed, trade_transactions,
                   store, fn, arg, ret>>

\* line 276: the loop is exhausted and validate_dataframe returns
ValidateReturn ==
    /\ pc = "rows"
    /\ idx > Len(df.rows)
    /\ pc' = "report"
    /\ UNCHANGED <<csv, df, idx, country_iso, gear_types_fao, vessel_types, sim,
                   self_warnings, valid_records, invalid_records, row_checks, report,
                   staging, txn, calls, conn, cur, processed, trade_transactions,
                   store, fn, arg, ret>>

\* DataFrame.head(n)
head(rows, n) == SubSeq(rows, 1, IF Len(rows) < n THEN Len(rows) ELSE n)

\* the count that takes the ERROR rows with the rows of the status
CountStatus_WithErrors(d, st) ==
    Cardinality({i \in DOMAIN d.rows : d.rows[i].validation_status \in {st, "ERROR"}})

CountStatus(d, st) == Cardinality({i \in DOMAIN d.rows : d.rows[i].validation_status = st})

\* the rate without the factor 100
validation_rate_NoPercent(valid, total) ==
    IF total > 0 THEN [num |-> valid, den |-> total] ELSE [num |-> 0, den |-> 1]

\* line 286: (valid_records / len(df) * 100) if len(df) > 0 else 0, kept as
\* the fraction num / den
validation_rate(valid, total) ==
    IF total > 0 THEN [num |-> valid * 100, den |-> total] ELSE [num |-> 0, den |-> 1]

\* lines 278-314
GenerateReport ==
    /\ pc = "report"
    /\ report' = [written |-> TRUE,
                  total_records |-> Len(df.rows),
                  valid_records |-> valid_records,
                  invalid_records |-> invalid_records,
                  warning_records |-> CountStatus(df, "WARNING"),
                  validation_rate |-> validation_rate(valid_records, Len(df.rows)),
                  sample_errors |->
                     head(SelectSeq(df.rows, LAMBDA r : r.validation_status = "ERROR"),
                          SampleSize),
                  sample_warnings |->
                     head(SelectSeq(df.rows, LAMBDA r : r.validation_status = "WARNING"),
                          SampleSize)]
    /\ pc' = "gate"
    /\ UNCHANGED <<csv, df, idx, country_iso, gear_types_fao, vessel_types, sim,
                   self_warnings, valid_records, invalid_records, row_checks,
                   staging, txn, calls, conn, cur, processed, trade_transactions,
                   store, fn, arg, ret>>

\* the comparison with > in place of >=
threshold_met_Strict(valid, total) == valid * 100 > ThresholdPercent * total

\* line 383: valid_records / len(df) >= 0.90, for len(df) > 0
threshold_met(valid, total) == valid * 100 >= ThresholdPercent * total

\* lines 383-387; the division raises ZeroDivisionError on an empty batch
Gate ==
    /\ pc = "gate"
    /\ pc' = IF Len(df.rows) = 0 THEN "raised"
             ELSE IF threshold_met(valid_records, Len(df.rows)) THEN "save"
             ELSE "exit1"
    /\ UNCHANGED <<csv, df, idx, country_iso, gear_types_fao, vessel_types, sim,
                   self_warnings, valid_records, invalid_records, row_checks, report,
                   staging, txn, calls, conn, cur, processed, trade_transactions,
                   store, fn, arg, ret>>

StagingRow(r) ==
    [vessel_name |-> r.vessel_name, imo_validated |-> r.imo_validated,
     flag_uuid |-> r.flag_uuid, gear_type_uuid |-> r.gear_type_uuid,
     vessel_type_uuid |-> r.vessel_type_uuid, validation_status |-> r.validation_status,
     validation_errors |-> r.validation_errors,
     validation_warnings |-> r.validation_warnings]

\* the rows sent without the selection of line 319
StagingRows_All(d) == [i \in DOMAIN d.rows |-> StagingRow(d.rows[i])]

\* the rows save_to_staging sends to COPY: the selection under its columns
StagingRows(d) == [i \in DOMAIN StagingSelected(d) |-> StagingRow(StagingSelected(d)[i])]

\* line 342: the commit makes the copied rows rows of the table
commit(table, copied) == table \o copied

\* a table that keeps the rows of a transaction that was never committed
abort_KeepsCopied(table, copied) == table \o copied

\* lines 336-340 raising: line 342 is not reached, main() does not catch the
\* exception, and the connection ends with its transaction uncommitted: the
\* data store discards what it copied
abort(table, copied) == table

\* lines 316-343; copy_expert or the commit may fail, after any number of the
\* rows was copied; the with block of line 336 closes the cursor either way,
\* nothing closes self.conn
SaveToStaging ==
    /\ pc = "save"
    /\ \/ /\ txn' = <<>>
          /\ staging' = commit(staging, StagingRows(df))
          /\ pc' = "done"
       \/ \E n \in 0 .. Len(StagingRows(df)) :
            /\ txn' = SubSeq(StagingRows(df), 1, n)
            /\ staging' = abort(staging, SubSeq(StagingRows(df), 1, n))
            /\ pc' = "save_raised"
    /\ cur' = "closed"
    /\ UNCHANGED <<csv, df, idx, country_iso, gear_types_fao, vessel_types, sim,
                   self_warnings, valid_records, invalid_records, row_checks, report,
                   calls, conn, processed, trade_transactions,
                   store, fn, arg, ret>>

Next ==
    \/ ReadCsv
    \/ AddValidationColumns
    \/ CheckDuplicates
    \/ ValidateRow
    \/ ValidateReturn
    \/ GenerateReport
    \/ Gate
    \/ SaveToStaging

Spec == Init /\ [][Next]_vars

(***************************************************************************)
(* validate_dataframe called again on the same validator and dataframe,    *)
(* before the report: lines 197-203 set the validation columns anew, the   *)
(* validator's lists and counters (lines 19-22) are set by __init__ only.  *)
(***************************************************************************)
\* records of the batches that are validated more than once
CallRecords ==
    { CsvRow(<<"A">>, KnownImo, GBR, OTB, <<"T", "O">>),
      CsvRow(<<"a">>, <<"I", "M", "O", " ">> \o KnownImo, GBR, <<"o", "t", "b">>, <<>>),
      CsvRow(<<" ">>, <<" ">>, <<"X", "X">>, <<>>, <<>>) }

CallFiles == {[header |-> DataCols, rows |-> b] : b \in SeqsUpTo(CallRecords, MaxRecords)}

InitCalls == Init /\ csv \in CallFiles

\* main() on these files with one state of the data store; it is a sequential
\* program and takes its next step as long as it has one
InitFair ==
    /\ InitCalls
    /\ country_iso = {RowGBR, RowDEU}
    /\ sim = [g \in FuzzyGearValues |-> [i \in DOMAIN GearTable |-> 61]] @@ ExactScores

SpecFair == InitFair /\ [][Next]_vars /\ WF_vars(Next)

\* line 376 once more: the call starts from what the earlier call returned
ValidateAgain ==
    /\ pc = "report"
    /\ Len(calls) + 1 < MaxCalls
    /\ calls' = Append(calls, [rows |-> df.rows, checks |-> row_checks,
                               valid_records |-> valid_records,
                               invalid_records |-> invalid_records])
    /\ row_checks' = <<>>
    /\ idx' = 0
    /\ pc' = "columns"
    /\ UNCHANGED <<csv, df, country_iso, gear_types_fao, vessel_types, sim, self_warnings,
                   valid_records, invalid_records, report, staging, txn, conn, cur, processed, trade_transactions,
                   store, fn, arg, ret>>

NextCalls == Next \/ ValidateAgain

SpecCalls == InitCalls /\ [][NextCalls]_vars

(***************************************************************************)
(* The store_in_postgres task of the airflow DAG (vessel_processing_dag.py *)
(* lines 479-511) running while staging loads commit rows.  The task's SQL *)
(* is two statements, INSERT ... SELECT and UPDATE; the data store gives   *)
(* each statement the rows committed when the statement starts.            *)
(***************************************************************************)
\* rows as save_to_staging writes them
LoadedValid ==
    [vessel_name |-> <<"A">>, imo_validated |-> KnownImo, flag_uuid |-> RowGBR.id,
     gear_type_uuid |-> NoneV, vessel_type_uuid |-> NoneV, validation_status |-> "VALID",
     validation_errors |-> NoneV, validation_warnings |-> NoneV]
LoadedWarning ==
    [vessel_name |-> <<"a">>, imo_validated |-> NoneV, flag_uuid |-> RowGBR.id,
     gear_type_uuid |-> NoneV, vessel_type_uuid |-> NoneV, validation_status |-> "WARNING",
     validation_errors |-> NoneV,
     validation_warnings |->
        json_dumps(<<[field |-> "imo", error |-> [msg |-> "Invalid length", len |-> 0]]>>)]

LoadBatches == {<<LoadedValid>>, <<LoadedWarning>>, <<LoadedValid, LoadedWarning>>}

InitStore ==
    /\ pc = "store"
    /\ csv = NoFile
    /\ df = [columns |-> {}, rows |-> <<>>]
    /\ idx = 0
    /\ country_iso = {RowGBR, RowDEU}
    /\ gear_types_fao = GearTable
    /\ vessel_types = VesselTypeTable
    /\ sim = [g \in FuzzyGearValues |-> [i \in DOMAIN GearTable |-> 50]]
    /\ self_warnings = <<>>
    /\ valid_records = 0
    /\ invalid_records = 0
    /\ row_checks = <<>>
    /\ report = NoReport
    /\ staging = <<>>
    /\ txn = <<>>
    /\ calls = <<>>
    /\ conn = "open"
    /\ cur = "none"
    /\ processed = {}
    /\ trade_transactions = <<>>
    /\ store = [r \in StoreRuns |-> "ready"]
    /\ fn = "none"
    /\ arg = NoneV
    /\ ret = NoneV

\* a staging load of another process commits its rows (save_to_staging, line 342)
StagingLoad ==
    /\ pc = "store"
    /\ \E b \in LoadBatches :
        /\ Len(staging) + Len(b) <= MaxStaged
        /\ staging' = commit(staging, b)
    /\ UNCHANGED <<pc, csv, df, idx, country_iso, gear_types_fao, vessel_types, sim,
                   self_warnings, valid_records, invalid_records, row_checks, report,
                   txn, calls, conn, cur, processed, trade_transactions, store,
                   fn, arg, ret>>

\* WHERE validation_status IN ('VALID', 'WARNING') AND processed_at IS NULL
Unprocessed(table, marks) ==
    {i \in DOMAIN table :
        /\ table[i].validation_status \in {"VALID", "WARNING"}
        /\ \A p \in marks : p.row # i}

RECURSIVE InAscending(_)
InAscending(S) ==
    IF S = {} THEN <<>>
    ELSE LET m == CHOOSE x \in S : \A y \in S : x <= y
         IN  <<m>> \o InAscending(S \ {m})

\* dag lines 483-501: INSERT INTO trade_transactions ... SELECT of run r
StoreInsert(r) ==
    /\ pc = "store"
    /\ store[r] = "ready"
    /\ LET sel == InAscending(Unprocessed(staging, processed))
       IN  trade_transactions' = trade_transactions \o
              [k \in DOMAIN sel |->
                  [vessel_name |-> staging[sel[k]].vessel_name, row |-> sel[k], run |-> r]]
    /\ store' = [store EXCEPT ![r] = "inserted"]
    /\ UNCHANGED <<pc, csv, df, idx, country_iso, gear_types_fao, vessel_types, sim,
                   self_warnings, valid_records, invalid_records, row_checks, report,
                   staging, txn, calls, conn, cur, processed, fn, arg, ret>>

\* dag lines 503-507: UPDATE ... SET processed_at = NOW() of run r, and the
\* commit of the task
StoreUpdate(r) ==
    /\ pc = "store"
    /\ store[r] = "inserted"
    /\ processed' = processed \cup
          {[row |-> i, run |-> r] : i \in Unprocessed(staging, processed)}
    /\ store' = [store EXCEPT ![r] = "done"]
    /\ UNCHANGED <<pc, csv, df, idx, country_iso, gear_types_fao, vessel_types, sim,
                   self_warnings, valid_records, invalid_records, row_checks, report,
                   staging, txn, calls, conn, cur, trade_transactions, fn, arg, ret>>

NextStore ==
    \/ StagingLoad
    \/ \E r \in StoreRuns : StoreInsert(r)
    \/ \E r \in StoreRuns : StoreUpdate(r)

SpecStore == InitStore /\ [][NextStore]_vars

(***************************************************************************)
(* The validator's methods called one at a time on a connected validator:  *)
(* the argument is drawn in the initial state, the call sets ret.          *)
(***************************************************************************)
ImoBodyChars == {"0", "9", " "}
ImoLastChars == Range(Digits) \cup {" ", "-"}

\* texts of at most ImoMaxLen characters, the last one any digit
ImoArgs ==
    {NaN, <<>>, KnownImo, <<"I", "M", "O", " ">> \o KnownImo}
    \cup {Append(b, c) : b \in SeqsUpTo(ImoBodyChars, ImoMaxLen - 1), c \in ImoLastChars}

FlagArgs == {NaN} \cup FlagCells \cup MappingKeys \cup {upper(k) : k \in MappingKeys}
            \cup {<<"u", "k">>, <<"d", "e">>, <<"D", "E", "U">>, <<"U", "K", "R">>}

GearArgs == {NaN} \cup GearCells

VesselTypeArgs == {NaN, <<"0", "1">>, <<"t", "o">>} \cup VesselTypeCells

UnitInit ==
    /\ pc = "unit"
    /\ csv = NoFile
    /\ df = [columns |-> {}, rows |-> <<>>]
    /\ idx = 0
    /\ gear_types_fao = GearTable
    /\ vessel_types = VesselTypeTable
    /\ self_warnings = <<>>
    /\ valid_records = 0
    /\ invalid_records = 0
    /\ row_checks = <<>>
    /\ report = NoReport
    /\ staging = <<>>
    /\ txn = <<>>
    /\ calls = <<>>
    /\ conn = "open"
    /\ cur = "none"
    /\ processed = {}
    /\ trade_transactions = <<>>
    /\ store = [r \in StoreRuns |-> "ready"]
    /\ ret = NoneV
    /\ \/ /\ fn = "validate_imo"
          /\ arg \in ImoArgs
          /\ country_iso = {RowGBR, RowDEU}
          /\ sim \in {[g \in FuzzyGearValues |-> [i \in DOMAIN GearTable |-> 50]]}
       \/ /\ fn = "validate_flag_code"
          /\ arg \in FlagArgs
          /\ country_iso \in CountryTables
          /\ sim \in {[g \in FuzzyGearValues |-> [i \in DOMAIN GearTable |-> 50]]}
       \/ /\ fn = "validate_gear_type"
          /\ arg \in GearArgs
          /\ country_iso = {RowGBR, RowDEU}
          /\ sim \in SimTables
       \/ /\ fn = "validate_vessel_type"
          /\ arg \in VesselTypeArgs
          /\ country_iso = {RowGBR, RowDEU}
          /\ sim \in {[g \in FuzzyGearValues |-> [i \in DOMAIN GearTable |-> 50]]}

CallValidateImo ==
    /\ pc = "unit" /\ fn = "validate_imo"
    /\ ret' = validate_imo(arg)
    /\ pc' = "returned"
    /\ UNCHANGED <<csv, df, idx, country_iso, gear_types_fao, vessel_types, sim,
                   self_warnings, valid_records, invalid_records, row_checks, report,
                   staging, txn, calls, conn, cur, processed, trade_transactions,
                   store, fn, arg>>

CallValidateFlagCode ==
    /\ pc = "unit" /\ fn = "validate_flag_code"
    /\ ret' = validate_flag_code(arg)
    /\ pc' = "returned"
    /\ UNCHANGED <<csv, df, idx, country_iso, gear_types_fao, vessel_types, sim,
                   self_warnings, valid_records, invalid_records, row_checks, report,
                   staging, txn, calls, conn, cur, processed, trade_transactions,
                   store, fn, arg>>

CallValidateGearType ==
    /\ pc = "unit" /\ fn = "validate_gear_type"
    /\ \E fetched \in GearFetches(arg) :
        /\ ret' = validate_gear_type(arg, fetched)
        /\ self_warnings' = self_warnings \o validate_gear_type(arg, fetched).warn
    /\ pc' = "returned"
    /\ UNCHANGED <<csv, df, idx, country_iso, gear_types_fao, vessel_types, sim,
                   valid_records, invalid_records, row_checks, report,
                   staging, txn, calls, conn, cur, processed, trade_transactions,
                   store, fn, arg>>

CallValidateVesselType ==
    /\ pc = "unit" /\ fn = "validate_vessel_type"
    /\ ret' = validate_vessel_type(arg)
    /\ pc' = "returned"
    /\ UNCHANGED <<csv, df, idx, country_iso, gear_types_fao, vessel_types, sim,
                   self_warnings, valid_records, invalid_records, row_checks, report,
                   staging, txn, calls, conn, cur, processed, trade_transactions,
                   store, fn, arg>>

UnitNext ==
    \/ CallValidateImo
    \/ CallValidateFlagCode
    \/ CallValidateGearType
    \/ CallValidateVesselType

SpecUnit == UnitInit /\ [][UnitNext]_vars

\* main() runs and single method calls together
SpecAll == (Init \/ UnitInit) /\ [][Next \/ UnitNext]_vars

(***************************************************************************)
(* Properties.                                                             *)
(***************************************************************************)
\* the rows the loop of validate_dataframe has classified so far
ClassifiedRows == DOMAIN row_checks

\* a value that is missing: null, or the empty text
IsNull(v) == v = NaN \/ v = NoneV \/ v = <<>>
\* a text of whitespace only (at least one character)
IsWhitespaceOnly(v) == ~IsNull(v) /\ \A k \in DOMAIN v : v[k] = " "
\* the digits of a text, in order
DigitsOf(v) == SelectSeq(v, LAMBDA c : c \in {"0", "1", "2", "3", "4", "5", "6", "7", "8", "9"})
DigitNum(c) ==
    CASE c = "0" -> 0 [] c = "1" -> 1 [] c = "2" -> 2 [] c = "3" -> 3 [] c = "4" -> 4
      [] c = "5" -> 5 [] c = "6" -> 6 [] c = "7" -> 7 [] c = "8" -> 8 [] c = "9" -> 9

ImoReturned == pc = "returned" /\ fn = "validate_imo"

HasImoWarning(chk) == \E k \in DOMAIN chk.warnings : chk.warnings[k].field = "imo"

\* C1: for every non-empty input validate_imo strips the non-digits; it fails
\* with the wrong-length reason unless 7 digits remain, else with the
\* bad-check-digit reason unless (7*d1 + 6*d2 + 5*d3 + 4*d4 + 3*d5 + 2*d6) mod 10
\* equals d7, else it returns the 7 digits.  9074729 validates to itself, and a
\* valid IMO with its last digit replaced by another digit fails with the
\* bad-check-digit reason.
C1_ValidateImoContract ==
    (ImoReturned /\ ~IsNull(arg)) =>
        LET d == DigitsOf(arg)
            n == [i \in DOMAIN d |-> DigitNum(d[i])]
        IN  /\ IF Len(d) # 7
               THEN /\ ret.is_valid = FALSE
                    /\ ret.result = [msg |-> "Invalid length", len |-> Len(d)]
               ELSE IF (7 * n[1] + 6 * n[2] + 5 * n[3] + 4 * n[4] + 3 * n[5] + 2 * n[6]) % 10 # n[7]
               THEN /\ ret.is_valid = FALSE
                    /\ ret.result.msg = "Invalid check digit"
                    /\ ret.result.got = n[7]
                    /\ ret.result.expected =
                         (7 * n[1] + 6 * n[2] + 5 * n[3] + 4 * n[4] + 3 * n[5] + 2 * n[6]) % 10
               ELSE ret.is_valid = TRUE /\ ret.result = d
            /\ (arg = KnownImo => (ret.is_valid = TRUE /\ ret.result = KnownImo))
            /\ (ret.is_valid =>
                  \A c \in Range(Digits) \ {d[7]} :
                     LET corrupted == validate_imo(SubSeq(d, 1, 6) \o <<c>>)
                     IN  /\ corrupted.is_valid = FALSE
                         /\ corrupted.result.msg = "Invalid check digit")

\* C1 witness: a text with non-digit characters around a valid IMO was
\* validated to its 7 digits
C1_Witness ==
    /\ ImoReturned
    /\ ~IsNull(arg)
    /\ ret.is_valid
    /\ Len(arg) > 7
    /\ ret.result = DigitsOf(arg)

\* C2 as stated: for every empty or blank input (null, the empty text, or
\* whitespace only) validate_imo reports valid with no value, and the record
\* receives no IMO warning.
C2_BlankImoIsAbsent ==
    /\ (ImoReturned /\ (IsNull(arg) \/ IsWhitespaceOnly(arg))) =>
          (ret.is_valid = TRUE /\ ret.result = NoneV)
    /\ \A i \in ClassifiedRows :
          (IsNull(df.rows[i].imo) \/ IsWhitespaceOnly(df.rows[i].imo)) =>
               ~HasImoWarning(row_checks[i])

\* C2 amended: for every null or empty-text input validate_imo reports valid
\* with no value and the record receives no IMO warning; a whitespace-only
\* text is a non-empty input: it fails with the wrong-length reason (0 digits)
\* and the record receives an IMO warning.
C2_NullImoIsAbsent ==
    /\ (ImoReturned /\ IsNull(arg)) => (ret.is_valid = TRUE /\ ret.result = NoneV)
    /\ (ImoReturned /\ IsWhitespaceOnly(arg)) =>
          (ret.is_valid = FALSE /\ ret.result = [msg |-> "Invalid length", len |-> 0])
    /\ \A i \in ClassifiedRows :
          /\ IsNull(df.rows[i].imo) =>
                /\ ~HasImoWarning(row_checks[i])
                /\ df.rows[i].imo_validated = NoneV
          /\ IsWhitespaceOnly(df.rows[i].imo) =>
                \E k \in DOMAIN row_checks[i].warnings :
                    row_checks[i].warnings[k] =
                        [field |-> "imo", error |-> [msg |-> "Invalid length", len |-> 0]]

\* C2 witness: the empty text was validated, with no value returned
C2_Witness ==
    /\ ImoReturned
    /\ arg = <<>>
    /\ ret.is_valid = TRUE
    /\ ret.result = NoneV

\* a name that is missing or blank: null, empty or whitespace only
NameBlank(v) == IsNull(v) \/ IsWhitespaceOnly(v)

\* a flag value the reference table resolves: its upper-cased form, or the
\* alias of its upper-cased form, is a three- or two-letter code of a row
CodeOfSomeRow(code) ==
    \E r \in country_iso : r.alpha_3_code = code \/ r.alpha_2_code = code
UpperOf(v) ==
    [k \in DOMAIN v |->
        CASE v[k] = "a" -> "A" [] v[k] = "b" -> "B" [] v[k] = "d" -> "D" [] v[k] = "e" -> "E"
          [] v[k] = "g" -> "G" [] v[k] = "k" -> "K" [] v[k] = "n" -> "N" [] v[k] = "o" -> "O"
          [] v[k] = "r" -> "R" [] v[k] = "t" -> "T" [] v[k] = "u" -> "U" [] v[k] = "x" -> "X"
          [] OTHER -> v[k]]
AliasOf(code) ==
    CASE code \in {<<"U", "K">>, <<"E", "N", "G">>, <<"S", "C", "O">>} -> <<"G", "B", "R">>
      [] code = <<"G", "E", "R">> -> <<"D", "E", "U">>
      [] code = <<"N", "E", "D">> -> <<"N", "L", "D">>
      [] code = <<"P", "O", "R">> -> <<"P", "R", "T">>
      [] OTHER -> code
FlagResolvable(v) == CodeOfSomeRow(UpperOf(v)) \/ CodeOfSomeRow(AliasOf(UpperOf(v)))

\* a gear value the reference table resolves: a code of a row, or a value
\* some row's code is similar to beyond the threshold
GearResolvable(v) ==
    \E k \in DOMAIN gear_types_fao :
        gear_types_fao[k].fao_isscfg_code = v \/ (v \in DOMAIN sim /\ sim[v][k] > 60)
VesselTypeResolvable(v) == \E r \in vessel_types : r.code = v \/ r.alpha = v

HasEntry(list, f) == \E k \in DOMAIN list : list[k].field = f

C5_StatusFromLists ==
    \A i \in ClassifiedRows :
        LET r == df.rows[i]
            chk == row_checks[i]
        IN  /\ (r.validation_status = "ERROR") <=> (chk.errors # <<>>)
            /\ (r.validation_status = "WARNING") <=> (chk.errors = <<>> /\ chk.warnings # <<>>)
            /\ (r.validation_status = "VALID") <=> (chk.errors = <<>> /\ chk.warnings = <<>>)
            /\ r.validation_errors # NoneV =>
                  (r.validation_status = "ERROR" /\ r.validation_errors = <<"json", chk.errors>>)
            /\ r.validation_warnings # NoneV =>
                  (r.validation_status = "WARNING"
                     /\ r.validation_warnings = <<"json", chk.warnings>>)
            /\ (r.validation_status = "ERROR") => r.validation_errors # NoneV
            /\ (r.validation_status = "WARNING") => r.validation_warnings # NoneV

\* C5 witness: a record with both an error and a warning was classified ERROR
C5_Witness ==
    \E i \in ClassifiedRows :
        /\ row_checks[i].errors # <<>>
        /\ row_checks[i].warnings # <<>>
        /\ df.rows[i].validation_status = "ERROR"

FlagReturned == pc = "returned" /\ fn = "validate_flag_code"
GearReturned == pc = "returned" /\ fn = "validate_gear_type"

RowWith3(code) == {r \in country_iso : r.alpha_3_code = code}
RowWith2(code) == {r \in country_iso : r.alpha_2_code = code}
AliasHits(steps) == {k \in DOMAIN steps : steps[k].step = "mappings" /\ steps[k].hit}

\* C6: flag resolution of a non-blank value looks up the upper-cased value in
\* the three-letter index, then in the two-letter index, then substitutes it
\* through the alias table and retries the two lookups once, stopping at the
\* first hit; the alias table is consulted only after both lookups miss, at
\* most one substitution is made (no alias target is an alias key), and the
\* call returns.
C6_FlagResolutionOrder ==
    (FlagReturned /\ ~IsNull(arg)) =>
        LET st == ret.steps
            u == UpperOf(arg)
            a == AliasOf(u)
        IN  /\ Len(st) >= 1
            /\ st[1] = [step |-> "alpha_3_code", arg |-> u, hit |-> RowWith3(u) # {}]
            /\ RowWith3(u) # {} =>
                  (Len(st) = 1 /\ ret.is_valid /\ \E r \in RowWith3(u) : ret.uuid = r.id)
            /\ RowWith3(u) = {} =>
                  /\ Len(st) >= 2
                  /\ st[2] = [step |-> "alpha_2_code", arg |-> u, hit |-> RowWith2(u) # {}]
                  /\ RowWith2(u) # {} =>
                        (Len(st) = 2 /\ ret.is_valid /\ \E r \in RowWith2(u) : ret.uuid = r.id)
            /\ (RowWith3(u) = {} /\ RowWith2(u) = {}) =>
                  /\ Len(st) >= 3
                  /\ st[3] = [step |-> "mappings", arg |-> u, hit |-> a # u]
                  /\ a = u => (Len(st) = 3 /\ ~ret.is_valid)
                  /\ a # u =>
                        /\ Len(st) >= 4
                        /\ st[4] = [step |-> "alpha_3_code", arg |-> a, hit |-> RowWith3(a) # {}]
                        /\ RowWith3(a) # {} =>
                              (Len(st) = 4 /\ ret.is_valid /\ \E r \in RowWith3(a) : ret.uuid = r.id)
                        /\ RowWith3(a) = {} =>
                              /\ Len(st) = 6
                              /\ st[5] = [step |-> "alpha_2_code", arg |-> a, hit |-> FALSE]
                              /\ st[6] = [step |-> "mappings", arg |-> a, hit |-> FALSE]
                              /\ ~ret.is_valid
            /\ \A k \in DOMAIN st :
                  st[k].step = "mappings" => (k >= 3 /\ ~st[k - 1].hit /\ ~st[k - 2].hit)
            /\ Cardinality(AliasHits(st)) <= 1
            /\ \A m \in mappings : m[2] \notin {n[1] : n \in mappings}

\* C6 witness: 'UK', in no index, was substituted by 'GBR' and resolved by the
\* retried three-letter lookup
C6_Witness ==
    /\ FlagReturned
    /\ arg = <<"U", "K">>
    /\ Len(ret.steps) = 4
    /\ ret.steps[3].hit
    /\ ret.is_valid
    /\ ret.uuid = RowGBR.id

BestScore(v) ==
    CHOOSE b \in {sim[v][k] : k \in DOMAIN gear_types_fao} :
        \A k \in DOMAIN gear_types_fao : sim[v][k] <= b
FirstSeenBest(v) ==
    CHOOSE k \in DOMAIN gear_types_fao :
        /\ sim[v][k] = BestScore(v)
        /\ \A j \in DOMAIN gear_types_fao : sim[v][j] = BestScore(v) => k <= j

\* C7: for a gear value with no exact match the best-scoring candidate is
\* accepted iff its score is strictly greater than 0.6; among candidates of
\* the same best score the first of the reference table is chosen; a best
\* score of 0.6 or lower resolves to Unresolved.
C7_FuzzyBestFirstSeen ==
    (GearReturned /\ ~IsNull(arg)
        /\ \A k \in DOMAIN gear_types_fao : gear_types_fao[k].fao_isscfg_code # arg) =>
        /\ ret.is_valid <=> (BestScore(arg) > 60)
        /\ ret.is_valid =>
              /\ ret.uuid = gear_types_fao[FirstSeenBest(arg)].id
              /\ ret.code = gear_types_fao[FirstSeenBest(arg)].fao_isscfg_code

\* C8: a record whose gear_type was resolved by fuzzy match is WARNING (or
\* ERROR) and never VALID, and its own warning list carries the original
\* value, the matched value and the score.
C8_FuzzyMatchWarnsRecord ==
    \A i \in ClassifiedRows :
        row_checks[i].fuzzy # <<>> =>
            /\ df.rows[i].validation_status \in {"WARNING", "ERROR"}
            /\ \E k \in DOMAIN row_checks[i].warnings :
                  row_checks[i].warnings[k] = row_checks[i].fuzzy[1]

\* check_duplicates has run (to its end or to the exception it raised)
DupsRun == pc \in {"rows", "report", "gate", "save", "done", "exit1", "raised", "save_raised"}
\* check_duplicates has returned
DupsReturned == pc \in {"rows", "report", "gate", "save", "done", "exit1", "save_raised"}

ImoFindings == {k \in DOMAIN self_warnings : self_warnings[k].type = "DUPLICATE_IMO"}
ImoFindingsFor(v) == {k \in ImoFindings : self_warnings[k].imo = v}
ImoCarriers(v) == {i \in DOMAIN df.rows : df.rows[i].imo = v}

PairFindings == {k \in DOMAIN self_warnings : self_warnings[k].type = "DUPLICATE_NAME_FLAG"}
PairFindingsFor(n, f) ==
    {k \in PairFindings : self_warnings[k].vessel_name = n /\ self_warnings[k].flag = f}
PairCarriers(n, f) ==
    {i \in DOMAIN df.rows : df.rows[i].vessel_name = n /\ df.rows[i].flag_code = f}

\* C10: each (vessel_name, flag_code) pair value shared by more than one
\* record, compared by exact case-sensitive equality, yields exactly one
\* NameFlagDuplicate finding whose count is the group size; pairs that differ
\* only in letter case are distinct groups; every group of size greater than 1
\* yields a finding.
C10_OneFindingPerDuplicatedPair ==
    DupsReturned =>
        /\ \A i \in DOMAIN df.rows :
              LET n == df.rows[i].vessel_name
                  f == df.rows[i].flag_code
              IN  Cardinality(PairFindingsFor(n, f)) =
                     (IF Cardinality(PairCarriers(n, f)) > 1 THEN 1 ELSE 0)
        /\ \A k \in PairFindings :
              self_warnings[k].count =
                  Cardinality(PairCarriers(self_warnings[k].vessel_name, self_warnings[k].flag))

\* validate_dataframe has returned
Validated == pc \in {"report", "gate", "save", "done", "exit1", "save_raised"}

\* record i shares its IMO, or its (vessel_name, flag_code) pair, with another
InImoGroup(i) ==
    ~IsNull(df.rows[i].imo) /\ Cardinality(ImoCarriers(df.rows[i].imo)) > 1
InPairGroup(i) ==
    Cardinality(PairCarriers(df.rows[i].vessel_name, df.rows[i].flag_code)) > 1
Duplicated(i) == InImoGroup(i) \/ InPairGroup(i)

\* the reasons of a record's own fields for the status ERROR
OwnError(r) ==
    NameBlank(r.vessel_name) \/ (~IsNull(r.flag_code) /\ ~FlagResolvable(r.flag_code))

\* C11: duplicate findings are warnings and never errors: a record of an IMO
\* or name+flag duplicate group is ERROR only for the reasons of its own
\* fields (so no duplicate puts a record in ERROR or changes an ERROR record),
\* the findings are no entries of a record's error list, every non-ERROR
\* record of a group counts into the acceptance rate of the gate, and a load
\* that is performed writes it to staging.
C11_DuplicatesNeverInvalidate ==
    /\ \A i \in ClassifiedRows :
          Duplicated(i) =>
             /\ (df.rows[i].validation_status = "ERROR") <=> OwnError(df.rows[i])
             /\ \A k \in DOMAIN row_checks[i].errors :
                   row_checks[i].errors[k].field \in {"vessel_name", "flag_code"}
    /\ \A k \in DOMAIN self_warnings :
          self_warnings[k].type \in {"DUPLICATE_IMO", "DUPLICATE_NAME_FLAG", "GEAR_FUZZY_MATCH"}
    /\ Validated =>
          /\ valid_records = Cardinality({i \in DOMAIN df.rows : ~OwnError(df.rows[i])})
          /\ pc \in {"save", "done", "save_raised"} =>
                Cardinality({i \in DOMAIN df.rows : ~OwnError(df.rows[i])}) * 100
                    >= 90 * Len(df.rows)
          /\ pc = "exit1" =>
                Cardinality({i \in DOMAIN df.rows : ~OwnError(df.rows[i])}) * 100
                    < 90 * Len(df.rows)
    /\ pc = "done" =>
          \A i \in DOMAIN df.rows :
             (Duplicated(i) /\ ~OwnError(df.rows[i])) =>
                \E k \in DOMAIN staging : staging[k] = StagingRow(df.rows[i])

\* C11 witness: two records with the same IMO, name and flag were found
\* duplicated, both were classified VALID and both were written to staging
C11_Witness ==
    /\ pc = "done"
    /\ Len(df.rows) = 2
    /\ df.rows[1].imo = df.rows[2].imo /\ ~IsNull(df.rows[1].imo)
    /\ ImoFindings # {} /\ PairFindings # {}
    /\ df.rows[1].validation_status = "VALID" /\ df.rows[2].validation_status = "VALID"
    /\ Len(staging) = 2

\* the records of the batch with the given status
WithStatus(st) == {i \in DOMAIN df.rows : df.rows[i].validation_status = st}

\* C12 as stated: in the batch report valid, warning and error are the
\* numbers of outcomes with status VALID, WARNING and ERROR, so that
\* valid + warning + error = total.
C12_CountsPerStatus ==
    report.written =>
        /\ report.valid_records = Cardinality(WithStatus("VALID"))
        /\ report.warning_records = Cardinality(WithStatus("WARNING"))
        /\ report.invalid_records = Cardinality(WithStatus("ERROR"))
        /\ report.valid_records + report.warning_records + report.invalid_records
              = report.total_records

\* C12 amended: in the batch report valid is the number of outcomes that are
\* not ERROR (status VALID or WARNING), warning the number with status
\* WARNING (counted in valid as well) and error the number with status ERROR,
\* so valid + error = total and warning <= valid for every batch.
C12_ValidCountsNonError ==
    report.written =>
        /\ report.total_records = Len(df.rows)
        /\ report.valid_records =
              Cardinality(WithStatus("VALID")) + Cardinality(WithStatus("WARNING"))
        /\ report.warning_records = Cardinality(WithStatus("WARNING"))
        /\ report.invalid_records = Cardinality(WithStatus("ERROR"))
        /\ report.valid_records + report.invalid_records = report.total_records
        /\ report.warning_records <= report.valid_records

\* C12 witness: the report of a batch with one VALID, one WARNING and one
\* ERROR record was written: valid 2, warning 1, error 1 of total 3
C12_Witness ==
    /\ report.written
    /\ Cardinality(WithStatus("VALID")) = 1
    /\ Cardinality(WithStatus("WARNING")) = 1
    /\ Cardinality(WithStatus("ERROR")) = 1
    /\ report.valid_records = 2
    /\ report.warning_records = 1
    /\ report.invalid_records = 1
    /\ report.total_records = 3

\* C13 as stated: the report of an empty batch holds the rate 0 and is
\* written without a division failure; the report of a non-empty batch holds
\* the rate valid / total.
C13_RateIsValidOverTotal ==
    /\ pc = "gate" => report.written
    /\ report.written =>
          /\ report.total_records = 0 => report.validation_rate.num = 0
          /\ report.total_records > 0 =>
                report.validation_rate.num * report.total_records
                    = report.valid_records * report.validation_rate.den

\* C13 amended: the report of an empty batch holds the rate 0 and is written
\* without a division failure; the report of a non-empty batch holds the rate
\* 100 * valid / total, a percentage, valid being the report's count of the
\* outcomes that are not ERROR.
C13_RateIsPercentOfTotal ==
    /\ pc = "gate" => report.written
    /\ report.written =>
          /\ report.validation_rate.den > 0
          /\ report.total_records = 0 => report.validation_rate.num = 0
          /\ report.total_records > 0 =>
                /\ report.validation_rate.num * report.total_records
                      = 100 * report.valid_records * report.validation_rate.den
                /\ report.valid_records =
                      Cardinality({i \in DOMAIN df.rows : df.rows[i].validation_status # "ERROR"})

\* C13 witness: generate_report returned from an empty batch, with rate 0
C13_Witness ==
    /\ pc = "gate"
    /\ Len(df.rows) = 0
    /\ report.written
    /\ report.total_records = 0
    /\ report.validation_rate.num = 0

\* what the staging table holds of a record
Staged(r) ==
    [vessel_name |-> r.vessel_name, imo_validated |-> r.imo_validated,
     flag_uuid |-> r.flag_uuid, gear_type_uuid |-> r.gear_type_uuid,
     vessel_type_uuid |-> r.vessel_type_uuid, validation_status |-> r.validation_status,
     validation_errors |-> r.validation_errors,
     validation_warnings |-> r.validation_warnings]

\* the records of the batch that are not ERROR, in the order of the batch
NonError == SelectSeq(df.rows, LAMBDA r : r.validation_status \in {"VALID", "WARNING"})

\* C14: a staging load that is performed writes exactly the records
\* classified VALID or WARNING, in the order of the batch, and never a record
\* classified ERROR; the number of rows written is the number of non-ERROR
\* records of the batch.
C14_StagingHoldsNonError ==
    pc = "done" =>
        /\ Len(staging) = Cardinality({i \in DOMAIN df.rows :
                                          df.rows[i].validation_status # "ERROR"})
        /\ \A k \in DOMAIN staging :
              /\ staging[k].validation_status \in {"VALID", "WARNING"}
              /\ staging[k] = Staged(NonError[k])

\* C14 witness: a batch of GateLen records with one ERROR record was loaded:
\* GateLen - 1 rows were written, a WARNING record among them
C14_Witness ==
    /\ pc = "done"
    /\ Len(df.rows) = GateLen
    /\ Cardinality({i \in DOMAIN df.rows : df.rows[i].validation_status = "ERROR"}) = 1
    /\ Len(staging) = GateLen - 1
    /\ \E k \in DOMAIN staging : staging[k].validation_status = "WARNING"

\* the number of records of the batch that are not ERROR (valid + warning)
Accepted == Cardinality({i \in DOMAIN df.rows : df.rows[i].validation_status # "ERROR"})

Decided == pc \in {"save", "done", "save_raised", "exit1"}

\* C16: every run of main() that completes validation writes the batch
\* report, and writes it before the threshold decision: when the decision is
\* taken, and in particular when the load is refused, the report is written;
\* the report is not written before validation has completed.
C16_ReportBeforeDecision ==
    /\ [](pc = "gate" => report.written)
    /\ [](Decided => report.written)
    /\ [](report.written => pc \notin {"start", "columns", "dups", "rows", "report"})
    /\ ((pc = "report") ~> report.written)

\* C16 witness: a run ended with the load refused and its report written
C16_Witness ==
    /\ pc = "exit1"
    /\ report.written
    /\ report.invalid_records > 0
    /\ staging = <<>>

\* save_to_staging has returned, or has raised
SaveEnded == pc \in {"done", "save_raised"}

\* C17: the staging bulk write is all-or-nothing: after save_to_staging
\* returned the table holds every selected (VALID/WARNING) record of the
\* batch, after it failed the table holds none of them, however many rows
\* were copied before the failure.
C17_BulkWriteAllOrNothing ==
    /\ pc = "done" => (Len(staging) = Len(NonError)
                        /\ \A k \in DOMAIN staging : staging[k] = Staged(NonError[k]))
    /\ pc = "save_raised" => staging = <<>>
    /\ ~SaveEnded => staging = <<>>

\* C17 witness: the copy failed after some but not all of the selected rows
\* were copied, and the table holds no row
C17_Witness ==
    /\ pc = "save_raised"
    /\ Len(txn) > 0
    /\ Len(txn) < Len(NonError)
    /\ staging = <<>>

\* the outcome of a classified record
Outcome(r) ==
    <<r.validation_status, r.validation_errors, r.validation_warnings, r.imo_validated,
      r.flag_uuid, r.gear_type_uuid, r.vessel_type_uuid>>

\* C18: classification is idempotent: when validate_dataframe has run again
\* on the same records with the same reference tables, every record's outcome
\* (status, errors, warnings, resolved identifiers, normalized IMO) is the
\* outcome the earlier run gave it.
C18_ClassificationIdempotent ==
    (Validated /\ calls # <<>>) =>
        \A c \in DOMAIN calls :
            /\ Len(calls[c].rows) = Len(df.rows)
            /\ \A i \in DOMAIN df.rows : Outcome(df.rows[i]) = Outcome(calls[c].rows[i])

VesselTypeReturned == pc = "returned" /\ fn = "validate_vessel_type"

\* C19: whenever the resolution of a non-blank value fails, the unresolved
\* value returned by the resolver, and quoted in the record's error or
\* warning entry, is the raw value as supplied: for flags (the path through
\* the alias table included), gear types and vessel types.
C19_UnresolvedReportsRaw ==
    /\ ((FlagReturned \/ GearReturned \/ VesselTypeReturned) /\ ~IsNull(arg)) =>
          (ret.is_valid = FALSE => ret.code = arg)
    /\ \A i \in ClassifiedRows :
          /\ \A k \in DOMAIN row_checks[i].errors :
                row_checks[i].errors[k].field = "flag_code" =>
                    row_checks[i].errors[k].error.code = df.rows[i].flag_code
          /\ \A k \in DOMAIN row_checks[i].warnings :
                /\ row_checks[i].warnings[k].field = "gear_type" =>
                      row_checks[i].warnings[k].warning.code = df.rows[i].gear_type
                /\ row_checks[i].warnings[k].field = "vessel_type" =>
                      row_checks[i].warnings[k].warning.code = df.rows[i].vessel_type

\* the rows of the gear reference table whose code is exactly the value
ExactGearRows(v) ==
    {k \in DOMAIN gear_types_fao : gear_types_fao[k].fao_isscfg_code = v}
SimilaritySteps(steps) == {k \in DOMAIN steps : steps[k].step = "similarity"}

\* C20: resolving a gear-type code that exists exactly in the reference table
\* never triggers fuzzy matching: the result is the exactly matching entry,
\* no similarity lookup is made and no fuzzy-match warning is recorded, in a
\* single call and for every classified record.
C20_ExactGearShortCircuits ==
    /\ (GearReturned /\ ~IsNull(arg) /\ ExactGearRows(arg) # {}) =>
          /\ ret.is_valid = TRUE
          /\ \E k \in ExactGearRows(arg) : ret.uuid = gear_types_fao[k].id
          /\ ret.code = arg
          /\ SimilaritySteps(ret.steps) = {}
          /\ ret.warn = <<>>
          /\ self_warnings = <<>>
    /\ \A i \in ClassifiedRows :
          (HasCol(df, "gear_type") /\ ~IsNull(df.rows[i].gear_type)
              /\ ExactGearRows(df.rows[i].gear_type) # {}) =>
             /\ \E k \in ExactGearRows(df.rows[i].gear_type) :
                   df.rows[i].gear_type_uuid = gear_types_fao[k].id
             /\ SimilaritySteps(row_checks[i].gear_steps) = {}
             /\ row_checks[i].fuzzy = <<>>
             /\ ~HasEntry(row_checks[i].warnings, "gear_type")

\* C20 witness: OTB, a code of the table that the similarity query would
\* match as well, was resolved by the exact lookup alone
C20_Witness ==
    /\ GearReturned
    /\ arg = OTB
    /\ sim[OTB][1] > 60
    /\ ret.is_valid = TRUE
    /\ ret.uuid = gear_types_fao[1].id
    /\ Len(ret.steps) = 1
    /\ ret.warn = <<>>

\* C21: for each of the three resolvable kinds the exact-match step looks up
\* the upper-cased raw value, so that a raw value that differs from a code of
\* the reference table only in letter case resolves by exact match to the row
\* of that code.
C21_ExactMatchUpperCases ==
    /\ (FlagReturned /\ ~IsNull(arg) /\ RowWith3(UpperOf(arg)) # {}) =>
          /\ ret.is_valid = TRUE
          /\ \E r \in RowWith3(UpperOf(arg)) : ret.uuid = r.id
          /\ Len(ret.steps) = 1
    /\ (GearReturned /\ ~IsNull(arg) /\ ExactGearRows(UpperOf(arg)) # {}) =>
          /\ ret.is_valid = TRUE
          /\ \E k \in ExactGearRows(UpperOf(arg)) : ret.uuid = gear_types_fao[k].id
          /\ SimilaritySteps(ret.steps) = {}
    /\ (VesselTypeReturned /\ ~IsNull(arg)
          /\ \E r \in vessel_types : r.code = UpperOf(arg) \/ r.alpha = UpperOf(arg)) =>
          /\ ret.is_valid = TRUE
          /\ \E r \in vessel_types :
                (r.code = UpperOf(arg) \/ r.alpha = UpperOf(arg)) /\ ret.uuid = r.id

\* the records whose IMO, stripped of its non-digits, is the given digits
NormalizedImoCarriers(d) ==
    {i \in DOMAIN df.rows : ~IsNull(df.rows[i].imo) /\ DigitsOf(df.rows[i].imo) = d}

\* C22: IMO duplicate grouping uses the normalized IMO (the digits left after
\* stripping the non-digits): records whose raw IMO values differ only in
\* non-digit characters are one group, and a group of more than one record
\* has an ImoDuplicate finding with the group's size as its count.
C22_ImoGroupsByDigits ==
    DupsRun =>
        \A i \in DOMAIN df.rows :
            (~IsNull(df.rows[i].imo)
               /\ Cardinality(NormalizedImoCarriers(DigitsOf(df.rows[i].imo))) > 1) =>
                \E k \in ImoFindings :
                    /\ DigitsOf(self_warnings[k].imo) = DigitsOf(df.rows[i].imo)
                    /\ self_warnings[k].count =
                          Cardinality(NormalizedImoCarriers(DigitsOf(df.rows[i].imo)))

\* the record's own warning list holds the finding
CarriesFinding(i, finding) ==
    \E j \in DOMAIN row_checks[i].warnings : row_checks[i].warnings[j] = finding

\* C23: after the classification of the batch every duplicate finding is in
\* the warning list of each record of its duplicate group, so that a record
\* of a duplicate group carries the duplicate warning in its own outcome and
\* is not VALID; a record that is ERROR stays ERROR.
C23_FindingsMergedIntoRecords ==
    Validated =>
        /\ \A k \in ImoFindings :
              \A i \in ImoCarriers(self_warnings[k].imo) :
                 /\ CarriesFinding(i, self_warnings[k])
                 /\ df.rows[i].validation_status \in {"WARNING", "ERROR"}
        /\ \A k \in PairFindings :
              \A i \in PairCarriers(self_warnings[k].vessel_name, self_warnings[k].flag) :
                 /\ CarriesFinding(i, self_warnings[k])
                 /\ df.rows[i].validation_status \in {"WARNING", "ERROR"}
        /\ \A i \in ClassifiedRows :
              OwnError(df.rows[i]) => df.rows[i].validation_status = "ERROR"

\* C24: duplicate detection is a barrier stage: when it starts, and whenever
\* it has run, the per-record checksum validation and reference resolution of
\* every record of the batch have completed; it runs once per batch, so no
\* group has more than one finding.
C24_DuplicatesAfterRowChecks ==
    /\ pc = "dups" => ClassifiedRows = DOMAIN df.rows
    /\ DupsRun => \A k \in ImoFindings :
                     Cardinality(ImoFindingsFor(self_warnings[k].imo)) = 1

\* C25: the staging gate decides on the rate of the report: the load goes on
\* iff the report's rate is at least 90 percent, for every batch; for the
\* empty batch the rate is 0 and the load is refused (exit status 1), not
\* aborted by a division failure.
C25_GateAgreesWithReport ==
    /\ pc \in {"save", "done", "save_raised"} =>
          report.validation_rate.num >= 90 * report.validation_rate.den
    /\ pc = "exit1" => report.validation_rate.num < 90 * report.validation_rate.den
    /\ (report.written /\ Len(df.rows) = 0 /\ pc # "gate") => pc = "exit1"

\* C26: the write target acquired for a bulk-load call is released when the
\* call ends, on the success path and on every failure path: after
\* save_to_staging returned or raised, its cursor is closed, the connection
\* is closed and no uncommitted row is held by an open transaction.
C26_WriteTargetReleased ==
    SaveEnded =>
        /\ cur = "closed"
        /\ conn = "closed"
        /\ txn = <<>>

\* C27: the per-record field checks (checksum validation and the flag, gear
\* type and vessel type resolutions) touch no shared mutable state: a call of
\* one of them leaves the validator's warning list and counters as they were,
\* and in a batch run the validator's warning list holds only what the
\* batch-level duplicate detection wrote, so that the order in which the
\* checks run cannot show in it.
C27_FieldChecksWriteOwnResult ==
    /\ pc = "returned" =>
          (self_warnings = <<>> /\ valid_records = 0 /\ invalid_records = 0)
    /\ \A k \in DOMAIN self_warnings :
          self_warnings[k].type \in {"DUPLICATE_IMO", "DUPLICATE_NAME_FLAG"}

\* C28: field-level problems never abort the batch: for every batch, one
\* whose file lacks the imo, flag_code, gear_type or vessel_type column
\* included, duplicate detection and the row loop complete without raising,
\* and once they have, every record has a status and a record whose status
\* is not VALID holds its structured entries.
C28_FieldProblemsNeverAbort ==
    /\ pc = "raised" => (report.written /\ ClassifiedRows = DOMAIN df.rows)
    /\ Validated =>
          \A i \in DOMAIN df.rows :
              /\ i \in ClassifiedRows
              /\ df.rows[i].validation_status \in {"VALID", "WARNING", "ERROR"}
              /\ df.rows[i].validation_status = "ERROR" => row_checks[i].errors # <<>>
              /\ df.rows[i].validation_status = "WARNING" => row_checks[i].warnings # <<>>

\* C29: after any sequence of validate_dataframe calls on one validator the
\* counters describe the batch just validated: valid_records is the number of
\* its records with status VALID or WARNING, invalid_records the number with
\* status ERROR, their sum is its total, and so the acceptance rate is at
\* most 1.
C29_CountersDescribeLastBatch ==
    (pc \in {"report", "gate"}) =>
        /\ valid_records = Cardinality(WithStatus("VALID")) + Cardinality(WithStatus("WARNING"))
        /\ invalid_records = Cardinality(WithStatus("ERROR"))
        /\ valid_records + invalid_records = Len(df.rows)
        /\ valid_records <= Len(df.rows)

\* the rows of trade_transactions that were inserted from staging row i
InsertedFrom(i) == {k \in DOMAIN trade_transactions : trade_transactions[k].row = i}

\* C30: over any interleaving of store_in_postgres runs with staging loads,
\* a staging row is marked processed only if the run that marked it inserted
\* it into trade_transactions, and no staging row is inserted more than once
\* (by two runs): every processed row was inserted exactly once.
C30_EachRowInsertedOnce ==
    /\ \A p \in processed :
          \E k \in InsertedFrom(p.row) : trade_transactions[k].run = p.run
    /\ \A i \in DOMAIN staging : Cardinality(InsertedFrom(i)) <= 1

====
